---- MODULE Spec2Model ----
(***************************************************************************)
(* Model of the relay connection core (crates/nostr-sdk/src/relay/mod.rs)  *)
(* and of the NIP-26 delegation core (crates/nostr/src/nips/nip26.rs).     *)
(*                                                                         *)
(* Relay: every await of the source is a step boundary.  The shared cells  *)
(* (status, scheduled_for_termination) are read and written one lock       *)
(* acquisition at a time; the command channel is a bounded FIFO; the       *)
(* receiver sits behind a fair (FIFO) async mutex whose guard a writer     *)
(* task holds for a whole loop iteration.                                  *)
(***************************************************************************)
EXTENDS Integers, Sequences, FiniteSets, TLC

\* ---------------------------------------------------------------- bounds
\* capacity of the command channel: mpsc::channel(64), scaled down
ChannelCapacity == 2
\* the events that start something new, counted together: a connect() that
\* passes the gate, a successful dial, a send_msg(), a terminate(), a ping
MaxOps == 4
\* capacity of the pool's channel, and the frames a run reads from streams
PoolCapacity == 1
MaxFrames == 3
\* the longest Conditions list, and the largest number (a kind, a time)
MaxCondLen == 2
MaxNum == 1
\* the largest u64: u64::MAX, scaled down
U64Max == 99

\* clones of the Relay handle that call the API
Callers == {"a", "b"}
\* a supervisor task takes a connect(), a connection takes a dial
Sups == 1..MaxOps
Conns == 1..MaxOps

VARIABLES
    status,      \* Relay.status: the RelayStatus cell
    scheduled,   \* Relay.scheduled_for_termination
    chan,        \* the command channel (relay_sender -> relay_receiver)
    rxq,         \* relay_receiver mutex: Head is the holder, the rest wait in order
    wire,        \* frames attempted on the sinks, in the order of the attempts
    cpc,         \* callers: position in connect() / terminate() / send_msg()
    sup,         \* supervisor tasks (connection_thread): position
    wr,          \* writer tasks (func_relay_event): position
    rd,          \* reader tasks (func_relay_msg): position
    pg,          \* ping tasks (func_relay_ping): position
    nsup,        \* supervisors spawned so far
    nconn,       \* connections established so far
    nmsg,        \* SendMsg commands accepted so far
    ops,         \* events counted against MaxOps so far
    requested    \* history: a terminate() set the flag and the status has not
                 \* been set to Terminated since

relayVars == <<status, scheduled, chan, rxq, wire, cpc,
               sup, wr, rd, pg, nsup, nconn, nmsg, ops, requested>>

VARIABLES
    tag,         \* the DelegationTag that DelegationTag::new returned: <<>> or <<t>>
    delegatee,   \* the delegatee key that tag was built for: <<>> or <<pk>>
    validated,   \* the last call of validate with its result: <<>> or <<call>>
    applied      \* a function of nip26.rs applied to an input: <<>> or <<call>>

nip26Vars == <<tag, delegatee, validated, applied>>

VARIABLES
    inbound,     \* history: the frames that the readers got from ws_rx.next()
    fwd,         \* readers: the message a reader is suspended with in
                 \* pool_sender.send(): <<>> or <<event>>
    pool,        \* the pool's channel (pool_sender -> the pool's receiver)
    poolOpen,    \* the pool's receiver has not been dropped
    accepted     \* history: the events that the pool's channel accepted

inboundVars == <<inbound, fwd, pool, poolOpen, accepted>>

\* what the steps of the relay's callers and tasks other than a reader's
\* loop leave alone
otherVars == <<nip26Vars, inboundVars>>

vars == <<relayVars, nip26Vars, inboundVars>>

RelayStatus == {"Initialized", "Connected", "Connecting", "Disconnected", "Terminated"}

\* RelayEvent; id is the acceptance ticket: for SendMsg its rank among the
\* accepted SendMsg, for the others the number of SendMsg accepted before it;
\* a Terminate or a Close also records how many connections had been made
\* when it was put on the channel
RelayEvent(t, id) ==
    [t |-> t, id |-> id, at |-> IF t \in {"Terminate", "Close"} THEN nconn ELSE 0]

\* a frame attempted on connection k's sink, with the command it answers;
\* ok is what ws_tx.send returned for it (a Close frame is made by
\* ws_tx.close(), whose result is logged only, and carries TRUE)
Frame(k, t, ev, ok) == [conn |-> k, t |-> t, ev |-> ev.t, id |-> ev.id, ok |-> ok]

\* ------------------------------------------------------------ shared cells
\* Relay::set_status
set_status(s) ==
    /\ status' = s
    /\ requested' = (requested /\ s # "Terminated")

\* Relay::schedule_for_termination
schedule_for_termination(v) == scheduled' = v

\* Sender::send has room at once
HasRoom == Len(chan) < ChannelCapacity

\* a send that puts the command at the front of the channel
send_relay_event_front(ev) ==
    /\ HasRoom
    /\ chan' = <<ev>> \o chan

\* a send that does not wait for room
send_relay_event_no_wait(ev) ==
    chan' = Append(chan, ev)

\* Relay::send_relay_event: Sender::send suspends while the channel is full
send_relay_event(ev) ==
    /\ HasRoom
    /\ chan' = Append(chan, ev)

\* Relay::new; no delegation tag has been built
Init ==
    /\ tag = <<>>
    /\ delegatee = <<>>
    /\ validated = <<>>
    /\ applied = <<>>
    /\ inbound = <<>>
    /\ fwd = [k \in Conns |-> <<>>]
    /\ pool = <<>>
    /\ poolOpen = TRUE
    /\ accepted = <<>>
    /\ status = "Initialized"
    /\ scheduled = FALSE
    /\ chan = <<>>
    /\ rxq = <<>>
    /\ wire = <<>>
    /\ cpc = [c \in Callers |-> "idle"]
    /\ sup = [s \in Sups |-> "none"]
    /\ wr = [k \in Conns |-> "none"]
    /\ rd = [k \in Conns |-> "none"]
    /\ pg = [k \in Conns |-> "none"]
    /\ nsup = 0
    /\ nconn = 0
    /\ nmsg = 0
    /\ ops = 0
    /\ requested = FALSE

\* ------------------------------------------------------------- try_connect
\* Relay::try_connect, first await: set_status(Connecting)
try_connect_begin == set_status("Connecting")

\* Relay::try_connect, Ok arm of get_connection: the status becomes Connected
\* and the three tasks of the connection are spawned; the writer task asks
\* for the receiver's lock
try_connect_ok ==
    /\ ops < MaxOps
    /\ ops' = ops + 1
    /\ set_status("Connected")
    /\ nconn' = nconn + 1
    /\ wr' = [wr EXCEPT ![nconn + 1] = "recv"]
    /\ rxq' = Append(rxq, nconn + 1)
    /\ rd' = [rd EXCEPT ![nconn + 1] = "read"]
    /\ pg' = [pg EXCEPT ![nconn + 1] = "sleep"]

\* an Err arm that leaves the status as it is
try_connect_err_silent ==
    /\ UNCHANGED <<status, requested>>
    /\ UNCHANGED <<nconn, wr, rxq, rd, pg, ops>>

\* Relay::try_connect, Err arm of get_connection
try_connect_err ==
    /\ set_status("Disconnected")
    /\ UNCHANGED <<nconn, wr, rxq, rd, pg, ops>>

\* a gate that is open in Disconnected too
ConnectGate_disconnected(s) == s \in {"Initialized", "Terminated", "Disconnected"}

\* the gate of Relay::connect
ConnectGate(s) == s \in {"Initialized", "Terminated"}

\* tokio::task::spawn(connection_thread)
spawn_connection_thread ==
    /\ nsup' = nsup + 1
    /\ sup' = [sup EXCEPT ![nsup + 1] = "tick"]

\* ------------------------------------------------------------------ callers
\* the handles are clones of each other: the second one starts a call only
\* while the first one is inside a call
MayCall(c) ==
    /\ cpc[c] = "idle"
    /\ c = "b" => cpc["a"] # "idle"

\* Relay::connect(wait_for_connection): the status read of the gate
Connect(c, wait) ==
    /\ MayCall(c)
    /\ IF ConnectGate(status)
         THEN /\ ops < MaxOps
              /\ ops' = ops + 1
              /\ cpc' = [cpc EXCEPT ![c] = IF wait THEN "c_try" ELSE "c_setdisc"]
         ELSE /\ cpc' = [cpc EXCEPT ![c] = "c_noop"]
              /\ ops' = ops
    /\ UNCHANGED <<status, scheduled, chan, rxq, wire, sup, wr, rd, pg,
                   nsup, nconn, nmsg, requested>>
    /\ UNCHANGED otherVars

\* Relay::connect returns, the gate not passed
C_Return(c) ==
    /\ cpc[c] = "c_noop"
    /\ cpc' = [cpc EXCEPT ![c] = "idle"]
    /\ UNCHANGED <<status, scheduled, chan, rxq, wire, sup, wr, rd, pg,
                   nsup, nconn, nmsg, ops, requested>>
    /\ UNCHANGED otherVars

\* Relay::connect, wait_for_connection: the inline try_connect begins
C_TryBegin(c) ==
    /\ cpc[c] = "c_try"
    /\ try_connect_begin
    /\ cpc' = [cpc EXCEPT ![c] = "c_dial"]
    /\ UNCHANGED <<scheduled, chan, rxq, wire, sup, wr, rd, pg,
                   nsup, nconn, nmsg, ops>>
    /\ UNCHANGED otherVars

\* Relay::connect, wait_for_connection: the dial returns and the
\* connection_thread is spawned
C_Dial(c, ok) ==
    /\ cpc[c] = "c_dial"
    /\ IF ok THEN try_connect_ok ELSE try_connect_err
    /\ spawn_connection_thread
    /\ cpc' = [cpc EXCEPT ![c] = "idle"]
    /\ UNCHANGED <<scheduled, chan, wire, nmsg>>
    /\ UNCHANGED otherVars

\* Relay::connect, not wait_for_connection: set_status(Disconnected) and the
\* connection_thread is spawned
C_SetDisconnected(c) ==
    /\ cpc[c] = "c_setdisc"
    /\ set_status("Disconnected")
    /\ spawn_connection_thread
    /\ cpc' = [cpc EXCEPT ![c] = "idle"]
    /\ UNCHANGED <<scheduled, chan, rxq, wire, wr, rd, pg, nconn, nmsg, ops>>
    /\ UNCHANGED otherVars

\* Relay::terminate, first await: schedule_for_termination(true)
Terminate(c) ==
    /\ MayCall(c)
    /\ ops < MaxOps
    /\ ops' = ops + 1
    /\ schedule_for_termination(TRUE)
    /\ requested' = TRUE
    /\ cpc' = [cpc EXCEPT ![c] = "t_enq"]
    /\ UNCHANGED <<status, chan, rxq, wire, sup, wr, rd, pg, nsup, nconn, nmsg>>
    /\ UNCHANGED otherVars

\* Relay::terminate, second await: send_relay_event(Terminate)
T_Enqueue(c) ==
    /\ cpc[c] = "t_enq"
    /\ send_relay_event(RelayEvent("Terminate", nmsg))
    /\ cpc' = [cpc EXCEPT ![c] = "idle"]
    /\ UNCHANGED <<status, scheduled, rxq, wire, sup, wr, rd, pg,
                   nsup, nconn, nmsg, ops, requested>>
    /\ UNCHANGED otherVars

\* Relay::send_msg: the command is accepted at once when the channel has
\* room, and the caller is suspended when it is full
SendMsg(c) ==
    /\ MayCall(c)
    /\ ops < MaxOps
    /\ ops' = ops + 1
    /\ IF HasRoom
         THEN /\ send_relay_event(RelayEvent("SendMsg", nmsg + 1))
              /\ nmsg' = nmsg + 1
              /\ cpc' = cpc
         ELSE /\ cpc' = [cpc EXCEPT ![c] = "m_enq"]
              /\ UNCHANGED <<chan, nmsg>>
    /\ UNCHANGED <<status, scheduled, rxq, wire, sup, wr, rd, pg, nsup, nconn, requested>>
    /\ UNCHANGED otherVars

\* Relay::send_msg: the suspended send_relay_event(SendMsg(msg)) completes
M_Enqueue(c) ==
    /\ cpc[c] = "m_enq"
    /\ send_relay_event(RelayEvent("SendMsg", nmsg + 1))
    /\ nmsg' = nmsg + 1
    /\ cpc' = [cpc EXCEPT ![c] = "idle"]
    /\ UNCHANGED <<status, scheduled, rxq, wire, sup, wr, rd, pg,
                   nsup, nconn, ops, requested>>
    /\ UNCHANGED otherVars

\* --------------------------------------------------------------- supervisor
\* connection_thread: is_scheduled_for_termination()
S_CheckFlag(s) ==
    /\ sup[s] = "tick"
    /\ sup' = [sup EXCEPT ![s] = IF scheduled THEN "set_terminated" ELSE "check"]
    /\ UNCHANGED <<status, scheduled, chan, rxq, wire, cpc, wr, rd, pg,
                   nsup, nconn, nmsg, ops, requested>>
    /\ UNCHANGED otherVars

\* connection_thread: set_status(Terminated)
S_SetTerminated(s) ==
    /\ sup[s] = "set_terminated"
    /\ set_status("Terminated")
    /\ sup' = [sup EXCEPT ![s] = "clear"]
    /\ UNCHANGED <<scheduled, chan, rxq, wire, cpc, wr, rd, pg,
                   nsup, nconn, nmsg, ops>>
    /\ UNCHANGED otherVars

\* connection_thread: schedule_for_termination(false); break
S_ClearFlag(s) ==
    /\ sup[s] = "clear"
    /\ schedule_for_termination(FALSE)
    /\ sup' = [sup EXCEPT ![s] = "done"]
    /\ UNCHANGED <<status, chan, rxq, wire, cpc, wr, rd, pg,
                   nsup, nconn, nmsg, ops, requested>>
    /\ UNCHANGED otherVars

\* connection_thread: match relay.status().await; the sleep follows
S_CheckStatus(s) ==
    /\ sup[s] = "check"
    /\ sup' = [sup EXCEPT ![s] = CASE status = "Disconnected" -> "try"
                                   [] status = "Terminated" -> "done"
                                   [] OTHER -> "tick"]
    /\ UNCHANGED <<status, scheduled, chan, rxq, wire, cpc, wr, rd, pg,
                   nsup, nconn, nmsg, ops, requested>>
    /\ UNCHANGED otherVars

\* connection_thread: try_connect begins
S_TryBegin(s) ==
    /\ sup[s] = "try"
    /\ try_connect_begin
    /\ sup' = [sup EXCEPT ![s] = "dial"]
    /\ UNCHANGED <<scheduled, chan, rxq, wire, cpc, wr, rd, pg,
                   nsup, nconn, nmsg, ops>>
    /\ UNCHANGED otherVars

\* connection_thread: the dial of try_connect returns; the sleep follows
S_Dial(s, ok) ==
    /\ sup[s] = "dial"
    /\ IF ok THEN try_connect_ok ELSE try_connect_err
    /\ sup' = [sup EXCEPT ![s] = "tick"]
    /\ UNCHANGED <<scheduled, chan, wire, cpc, nsup, nmsg>>
    /\ UNCHANGED otherVars

\* ------------------------------------------------------------------- writer
\* the writer that holds the guard of relay_receiver and sits in recv()
Receiving(k) == wr[k] = "recv" /\ rxq # <<>> /\ Head(rxq) = k /\ chan # <<>>

\* the guard of relay_receiver is dropped at the end of a loop iteration and
\* lock() is called again: behind the waiters, if there are any
Relock(k) == Append(Tail(rxq), k)

\* a writer that takes the newest command of the channel
W_SendMsg_newest(k, ok) ==
    /\ Receiving(k) /\ chan[Len(chan)].t = "SendMsg"
    /\ chan' = SubSeq(chan, 1, Len(chan) - 1)
    /\ wire' = Append(wire, Frame(k, "Text", chan[Len(chan)], ok))
    /\ rxq' = Relock(k)
    /\ UNCHANGED <<status, scheduled, cpc, sup, wr, rd, pg, nsup, nconn, nmsg, ops, requested>>
    /\ UNCHANGED otherVars

\* a writer that leaves its loop when sending the text fails
W_SendMsg_break(k, ok) ==
    /\ Receiving(k) /\ Head(chan).t = "SendMsg"
    /\ chan' = Tail(chan)
    /\ wire' = Append(wire, Frame(k, "Text", Head(chan), ok))
    /\ IF ok THEN /\ rxq' = Relock(k)
                  /\ wr' = wr
             ELSE /\ rxq' = Tail(rxq)
                  /\ wr' = [wr EXCEPT ![k] = "done"]
    /\ UNCHANGED <<status, scheduled, cpc, sup, rd, pg, nsup, nconn, nmsg, ops, requested>>
    /\ UNCHANGED otherVars

\* func_relay_event: recv() returns a SendMsg; the text is sent, and an error
\* of the sink is logged only
W_SendMsg(k, ok) ==
    /\ Receiving(k) /\ Head(chan).t = "SendMsg"
    /\ chan' = Tail(chan)
    /\ wire' = Append(wire, Frame(k, "Text", Head(chan), ok))
    /\ rxq' = Relock(k)
    /\ UNCHANGED <<status, scheduled, cpc, sup, wr, rd, pg, nsup, nconn, nmsg, ops, requested>>
    /\ UNCHANGED otherVars

\* func_relay_event: recv() returns a Ping; an error of the sink ends the task
W_Ping(k, ok) ==
    /\ Receiving(k) /\ Head(chan).t = "Ping"
    /\ chan' = Tail(chan)
    /\ wire' = Append(wire, Frame(k, "Ping", Head(chan), ok))
    /\ IF ok THEN /\ rxq' = Relock(k)
                  /\ wr' = wr
             ELSE /\ rxq' = Tail(rxq)
                  /\ wr' = [wr EXCEPT ![k] = "done"]
    /\ UNCHANGED <<status, scheduled, cpc, sup, rd, pg, nsup, nconn, nmsg, ops, requested>>
    /\ UNCHANGED otherVars

\* a Close arm that empties the channel
W_Close_drain(k) ==
    /\ Receiving(k) /\ Head(chan).t = "Close"
    /\ chan' = <<>>
    /\ wire' = Append(wire, Frame(k, "Close", Head(chan), TRUE))
    /\ wr' = [wr EXCEPT ![k] = "close_set"]
    /\ UNCHANGED <<status, scheduled, rxq, cpc, sup, rd, pg, nsup, nconn, nmsg, ops, requested>>
    /\ UNCHANGED otherVars

\* func_relay_event: recv() returns a Close; ws_tx.close()
W_Close(k) ==
    /\ Receiving(k) /\ Head(chan).t = "Close"
    /\ chan' = Tail(chan)
    /\ wire' = Append(wire, Frame(k, "Close", Head(chan), TRUE))
    /\ wr' = [wr EXCEPT ![k] = "close_set"]
    /\ UNCHANGED <<status, scheduled, rxq, cpc, sup, rd, pg, nsup, nconn, nmsg, ops, requested>>
    /\ UNCHANGED otherVars

\* func_relay_event, Close arm: set_status(Disconnected); break
W_CloseSet(k) ==
    /\ wr[k] = "close_set"
    /\ set_status("Disconnected")
    /\ wr' = [wr EXCEPT ![k] = "done"]
    /\ rxq' = Tail(rxq)
    /\ UNCHANGED <<scheduled, chan, wire, cpc, sup, rd, pg, nsup, nconn, nmsg, ops>>
    /\ UNCHANGED otherVars

\* func_relay_event: recv() returns a Terminate; ws_tx.close()
W_Terminate(k) ==
    /\ Receiving(k) /\ Head(chan).t = "Terminate"
    /\ chan' = Tail(chan)
    /\ wire' = Append(wire, Frame(k, "Close", Head(chan), TRUE))
    /\ wr' = [wr EXCEPT ![k] = "term_set"]
    /\ UNCHANGED <<status, scheduled, rxq, cpc, sup, rd, pg, nsup, nconn, nmsg, ops, requested>>
    /\ UNCHANGED otherVars

\* func_relay_event, Terminate arm: set_status(Terminated)
W_TermSet(k) ==
    /\ wr[k] = "term_set"
    /\ set_status("Terminated")
    /\ wr' = [wr EXCEPT ![k] = "term_clear"]
    /\ UNCHANGED <<scheduled, chan, rxq, wire, cpc, sup, rd, pg,
                   nsup, nconn, nmsg, ops>>
    /\ UNCHANGED otherVars

\* func_relay_event, Terminate arm: schedule_for_termination(false); break
W_TermClear(k) ==
    /\ wr[k] = "term_clear"
    /\ schedule_for_termination(FALSE)
    /\ wr' = [wr EXCEPT ![k] = "done"]
    /\ rxq' = Tail(rxq)
    /\ UNCHANGED <<status, chan, wire, cpc, sup, rd, pg, nsup, nconn, nmsg, ops, requested>>
    /\ UNCHANGED otherVars

\* ------------------------------------------------------------------- reader
\* func_relay_msg: ws_rx.next() returns None, the loop ends, and
\* relay.status() is compared with Terminated
R_Exit(k) ==
    /\ rd[k] = "read"
    /\ fwd[k] = <<>>
    /\ rd' = [rd EXCEPT ![k] = IF status # "Terminated" THEN "disconnect" ELSE "done"]
    /\ UNCHANGED <<status, scheduled, chan, rxq, wire, cpc, sup, wr, pg,
                   nsup, nconn, nmsg, ops, requested>>
    /\ UNCHANGED otherVars

\* func_relay_msg: relay.disconnect()
R_Disconnect(k) ==
    /\ rd[k] = "disconnect"
    /\ send_relay_event(RelayEvent("Close", nmsg))
    /\ rd' = [rd EXCEPT ![k] = "done"]
    /\ UNCHANGED <<status, scheduled, rxq, wire, cpc, sup, wr, pg,
                   nsup, nconn, nmsg, ops, requested>>
    /\ UNCHANGED otherVars

\* ---------------------------------------------------------------- ping task
\* func_relay_ping: after the sleep, if relay.status() == Terminated { break }
P_Wake(k) ==
    /\ pg[k] = "sleep"
    /\ IF status = "Terminated"
         THEN /\ pg' = [pg EXCEPT ![k] = "exit"]
              /\ ops' = ops
         ELSE /\ ops < MaxOps
              /\ ops' = ops + 1
              /\ pg' = [pg EXCEPT ![k] = "ping"]
    /\ UNCHANGED <<status, scheduled, chan, rxq, wire, cpc, sup, wr, rd,
                   nsup, nconn, nmsg, requested>>
    /\ UNCHANGED otherVars

\* func_relay_ping: relay.ping(); the channel is never closed, so Ok
P_Ping(k) ==
    /\ pg[k] = "ping"
    /\ send_relay_event(RelayEvent("Ping", nmsg))
    /\ pg' = [pg EXCEPT ![k] = "sleep"]
    /\ UNCHANGED <<status, scheduled, rxq, wire, cpc, sup, wr, rd,
                   nsup, nconn, nmsg, ops, requested>>
    /\ UNCHANGED otherVars

\* func_relay_ping, after the loop: if relay.status() != Terminated
P_Exit(k) ==
    /\ pg[k] = "exit"
    /\ pg' = [pg EXCEPT ![k] = IF status # "Terminated" THEN "disconnect" ELSE "done"]
    /\ UNCHANGED <<status, scheduled, chan, rxq, wire, cpc, sup, wr, rd,
                   nsup, nconn, nmsg, ops, requested>>
    /\ UNCHANGED otherVars

\* func_relay_ping: relay.disconnect()
P_Disconnect(k) ==
    /\ pg[k] = "disconnect"
    /\ send_relay_event(RelayEvent("Close", nmsg))
    /\ pg' = [pg EXCEPT ![k] = "done"]
    /\ UNCHANGED <<status, scheduled, rxq, wire, cpc, sup, wr, rd,
                   nsup, nconn, nmsg, ops, requested>>
    /\ UNCHANGED otherVars

\* ------------------------------------------------------------ specification
CallerStep ==
    \E c \in Callers :
        \/ \E wait \in BOOLEAN : Connect(c, wait)
        \/ C_Return(c)
        \/ C_TryBegin(c)
        \/ \E ok \in BOOLEAN : C_Dial(c, ok)
        \/ C_SetDisconnected(c)
        \/ Terminate(c)
        \/ T_Enqueue(c)
        \/ SendMsg(c)
        \/ M_Enqueue(c)

SupervisorStep ==
    \E s \in Sups :
        \/ S_CheckFlag(s)
        \/ S_SetTerminated(s)
        \/ S_ClearFlag(s)
        \/ S_CheckStatus(s)
        \/ S_TryBegin(s)
        \/ \E ok \in BOOLEAN : S_Dial(s, ok)

WriterStep ==
    \E k \in Conns :
        \/ \E ok \in BOOLEAN : W_SendMsg(k, ok)
        \/ \E ok \in BOOLEAN : W_Ping(k, ok)
        \/ W_Close(k)
        \/ W_CloseSet(k)
        \/ W_Terminate(k)
        \/ W_TermSet(k)
        \/ W_TermClear(k)

ReaderStep ==
    \E k \in Conns : R_Exit(k) \/ R_Disconnect(k)

PingStep ==
    \E k \in Conns : P_Wake(k) \/ P_Ping(k) \/ P_Exit(k) \/ P_Disconnect(k)

Next == CallerStep \/ SupervisorStep \/ WriterStep \/ ReaderStep \/ PingStep

Spec == Init /\ [][Next]_vars

\* ------------------------------------------------ reader loop and the pool
\* Relay.url
Url == "wss://relay.example"

\* what ws_rx.next() can give: an error, a frame whose data is not UTF-8, a
\* frame whose text is no relay message, and a relay message
FrameKinds == {"err", "bad_utf8", "bad_json", "msg"}

\* a frame that decodes even if its text is no relay message
Decodes_any_text(kind) == kind \in {"bad_json", "msg"}

\* msg_res is Ok, String::from_utf8 is Ok and RelayMessage::from_json is Ok
Decodes(kind) == kind = "msg"

\* RelayPoolEvent::ReceivedMsg { relay_url, msg }; a message is named by
\* the place of its frame among the frames read
ReceivedMsg(relay_url, msg) == [relay_url |-> relay_url, msg |-> msg]

\* func_relay_msg: ws_rx.next() returns a frame.  A frame that does not
\* decode is logged; a message is handed to pool_sender.send(), which
\* returns an error when the receiver is dropped, accepts the event when
\* the channel has room, and suspends the reader when it is full
R_Frame(k, kind) ==
    /\ rd[k] = "read"
    /\ fwd[k] = <<>>
    /\ Len(inbound) < MaxFrames
    /\ inbound' = Append(inbound, [conn |-> k, kind |-> kind])
    /\ LET ev == ReceivedMsg(Url, Len(inbound) + 1)
       IN  IF ~Decodes(kind) \/ ~poolOpen
             THEN UNCHANGED <<fwd, pool, accepted>>
           ELSE IF Len(pool) < PoolCapacity
             THEN /\ pool' = Append(pool, ev)
                  /\ accepted' = Append(accepted, ev)
                  /\ fwd' = fwd
           ELSE /\ fwd' = [fwd EXCEPT ![k] = <<ev>>]
                /\ UNCHANGED <<pool, accepted>>
    /\ UNCHANGED poolOpen
    /\ UNCHANGED <<relayVars, nip26Vars>>

\* func_relay_msg: the suspended pool_sender.send() completes, with the
\* event accepted, or with an error that is logged when the receiver is gone
R_PoolSend(k) ==
    /\ fwd[k] # <<>>
    /\ IF ~poolOpen
         THEN UNCHANGED <<pool, accepted>>
         ELSE /\ Len(pool) < PoolCapacity
              /\ pool' = Append(pool, fwd[k][1])
              /\ accepted' = Append(accepted, fwd[k][1])
    /\ fwd' = [fwd EXCEPT ![k] = <<>>]
    /\ UNCHANGED <<inbound, poolOpen>>
    /\ UNCHANGED <<relayVars, nip26Vars>>

\* the pool receives an event from its channel
Pool_Recv ==
    /\ poolOpen
    /\ pool # <<>>
    /\ pool' = Tail(pool)
    /\ UNCHANGED <<inbound, fwd, poolOpen, accepted>>
    /\ UNCHANGED <<relayVars, nip26Vars>>

\* the pool drops its receiver; what the channel holds is dropped with it
Pool_Drop ==
    /\ poolOpen
    /\ poolOpen' = FALSE
    /\ pool' = <<>>
    /\ UNCHANGED <<inbound, fwd, accepted>>
    /\ UNCHANGED <<relayVars, nip26Vars>>

\* one handle connects and the reader of the connection runs, with the
\* pool at the other end of its channel; the other tasks are not scheduled
ReaderNext ==
    \/ \E wait \in BOOLEAN : Connect("a", wait)
    \/ C_TryBegin("a")
    \/ \E ok \in BOOLEAN : C_Dial("a", ok)
    \/ C_SetDisconnected("a")
    \/ \E s \in Sups :
          \/ S_CheckFlag(s)
          \/ S_CheckStatus(s)
          \/ S_TryBegin(s)
          \/ \E ok \in BOOLEAN : S_Dial(s, ok)
    \/ \E k \in Conns :
          \/ \E kind \in FrameKinds : R_Frame(k, kind)
          \/ R_PoolSend(k)
          \/ R_Exit(k)
          \/ R_Disconnect(k)
    \/ Pool_Recv
    \/ Pool_Drop

ReaderSpec == Init /\ [][ReaderNext]_vars

\* ------------------------------------------------------- dropping handles
\* a clone of the Relay, and with it a clone of relay_sender, is held by
\* every handle that is not dropped and by every task that has not finished:
\* each task moves a self.clone() into its future
SenderAlive ==
    \/ \E c \in Callers : cpc[c] # "dropped"
    \/ \E s \in Sups : sup[s] \notin {"none", "done"}
    \/ \E k \in Conns : wr[k] \notin {"none", "done"}
    \/ \E k \in Conns : rd[k] \notin {"none", "done"}
    \/ \E k \in Conns : pg[k] \notin {"none", "done"}

\* the channel is closed for recv() when every Sender is dropped
ChannelClosed == ~SenderAlive

\* the callers drop all their handles, none of them inside a call
DropHandles ==
    /\ \A c \in Callers : cpc[c] = "idle"
    /\ cpc' = [c \in Callers |-> "dropped"]
    /\ UNCHANGED <<status, scheduled, chan, rxq, wire, sup, wr, rd, pg,
                   nsup, nconn, nmsg, ops, requested>>
    /\ UNCHANGED otherVars

DropNext == Next \/ DropHandles

DropSpec == Init /\ [][DropNext]_vars

\* ------------------------------------------------------------------ NIP-26
\* Strings are sequences of characters.  Keys are one byte wide, and the
\* cryptography is ideal: a hash is its preimage under a label, a signature
\* names its signer and the message signed, and verification accepts exactly
\* the signatures made by the key's owner on that message.
Nums == 0..MaxNum

\* Result<(), E>
Ok == <<"Ok">>
Err(e) == <<"Err", e>>

\* Result<T, E>: Ok with a value
OkV(v) == <<"Ok", v>>

\* Error::ConditionsValidation, Error::Secp256k1
ConditionsValidation(v) == <<"ConditionsValidation", v>>
Secp256k1(e) == <<"Secp256k1", e>>

\* Error::ConditionsParseInvalidCondition, Error::ConditionsParseNumeric,
\* Error::DelegationTagParse
ConditionsParseInvalidCondition == <<"ConditionsParseInvalidCondition">>
ConditionsParseNumeric(e) == <<"ConditionsParseNumeric", e>>
DelegationTagParse == <<"DelegationTagParse">>

\* Keys: the delegators' secret keys and their public keys
SecretKeys == {1, 2}
public_key(sk) == 160 + sk

\* the delegatees' public keys
DelegateeKeys == {26, 171}

\* enum Condition
Kind(k) == [v |-> "Kind", n |-> k]
CreatedBefore(t) == [v |-> "CreatedBefore", n |-> t]
CreatedAfter(t) == [v |-> "CreatedAfter", n |-> t]
Condition ==
    {Kind(n) : n \in Nums} \cup {CreatedBefore(n) : n \in Nums}
        \cup {CreatedAfter(n) : n \in Nums}

\* struct Conditions(Vec<Condition>)
Conditions == UNION {[1..n -> Condition] : n \in 0..MaxCondLen}

\* struct EventProperties
EventProperties == [kind : Nums, created_time : Nums]

\* a Condition::evaluate whose time bounds include the bound itself
Condition_evaluate_inclusive(c, ep) ==
    CASE c.v = "Kind" ->
             IF ep.kind # c.n THEN Err("InvalidKind") ELSE Ok
      [] c.v = "CreatedBefore" ->
             IF ep.created_time > c.n THEN Err("CreatedTooLate") ELSE Ok
      [] c.v = "CreatedAfter" ->
             IF ep.created_time < c.n THEN Err("CreatedTooEarly") ELSE Ok

\* Condition::evaluate
Condition_evaluate(c, ep) ==
    CASE c.v = "Kind" ->
             IF ep.kind # c.n THEN Err("InvalidKind") ELSE Ok
      [] c.v = "CreatedBefore" ->
             IF ep.created_time >= c.n THEN Err("CreatedTooLate") ELSE Ok
      [] c.v = "CreatedAfter" ->
             IF ep.created_time <= c.n THEN Err("CreatedTooEarly") ELSE Ok

\* a Conditions::evaluate that goes on after a failure and returns the last one
RECURSIVE Conditions_evaluate_last(_, _)
Conditions_evaluate_last(cs, ep) ==
    IF cs = <<>> THEN Ok
    ELSE IF Conditions_evaluate_last(Tail(cs), ep) # Ok
           THEN Conditions_evaluate_last(Tail(cs), ep)
           ELSE Condition_evaluate(Head(cs), ep)

\* Conditions::evaluate: the first condition that fails ends the loop
RECURSIVE Conditions_evaluate(_, _)
Conditions_evaluate(cs, ep) ==
    IF cs = <<>> THEN Ok
    ELSE IF Condition_evaluate(Head(cs), ep) # Ok
           THEN Condition_evaluate(Head(cs), ep)
           ELSE Conditions_evaluate(Tail(cs), ep)

\* u64 as Display: decimal digits, no sign, no leading zero
DecDigits == <<"0", "1", "2", "3", "4", "5", "6", "7", "8", "9">>
RECURSIVE u64_to_string(_)
u64_to_string(n) ==
    IF n < 10 THEN <<DecDigits[n + 1]>>
    ELSE u64_to_string(n \div 10) \o <<DecDigits[(n % 10) + 1]>>

\* XOnlyPublicKey as Display: lower-case hex of the bytes
HexDigits == DecDigits \o <<"a", "b", "c", "d", "e", "f">>
XOnlyPublicKey_to_string(pk) ==
    <<HexDigits[(pk \div 16) + 1], HexDigits[(pk % 16) + 1]>>

\* Condition::to_string
Condition_to_string(c) ==
    CASE c.v = "Kind" -> <<"k", "i", "n", "d", "=">> \o u64_to_string(c.n)
      [] c.v = "CreatedBefore" ->
             <<"c", "r", "e", "a", "t", "e", "d", "_", "a", "t", "<">> \o u64_to_string(c.n)
      [] c.v = "CreatedAfter" ->
             <<"c", "r", "e", "a", "t", "e", "d", "_", "a", "t", ">">> \o u64_to_string(c.n)

\* the three prefixes of a condition string
KindPrefix == <<"k", "i", "n", "d", "=">>
CreatedBeforePrefix == <<"c", "r", "e", "a", "t", "e", "d", "_", "a", "t", "<">>
CreatedAfterPrefix == <<"c", "r", "e", "a", "t", "e", "d", "_", "a", "t", ">">>

\* u64::from_str, the digits after the optional sign, left to right
RECURSIVE u64_from_digits(_, _)
u64_from_digits(digits, acc) ==
    IF digits = <<>> THEN OkV(acc)
    ELSE IF \A i \in 1..10 : DecDigits[i] # Head(digits) THEN Err("InvalidDigit")
    ELSE LET d == (CHOOSE i \in 1..10 : DecDigits[i] = Head(digits)) - 1
         IN  IF acc * 10 + d > U64Max THEN Err("PosOverflow")
             ELSE u64_from_digits(Tail(digits), acc * 10 + d)

\* u64::from_str: an optional "+", then decimal digits; no "-" for an
\* unsigned type, and a sign alone is no number
u64_from_str(src) ==
    IF src = <<>> THEN Err("Empty")
    ELSE IF Head(src) \in {"+", "-"} /\ Len(src) = 1 THEN Err("InvalidDigit")
    ELSE IF Head(src) = "+" THEN u64_from_digits(Tail(src), 0)
    ELSE u64_from_digits(src, 0)

\* str::strip_prefix: <<rest>> when s starts with prefix, else <<>>
strip_prefix(s, prefix) ==
    IF Len(s) >= Len(prefix) /\ SubSeq(s, 1, Len(prefix)) = prefix
      THEN <<SubSeq(s, Len(prefix) + 1, Len(s))>>
      ELSE <<>>

\* the number of a condition: a ParseIntError becomes ConditionsParseNumeric
Condition_number(variant, text) ==
    LET n == u64_from_str(text)
    IN  IF n[1] = "Ok" THEN OkV([v |-> variant, n |-> n[2]])
        ELSE Err(ConditionsParseNumeric(n[2]))

\* impl FromStr for Condition
Condition_from_str(s) ==
    IF strip_prefix(s, KindPrefix) # <<>>
      THEN Condition_number("Kind", strip_prefix(s, KindPrefix)[1])
    ELSE IF strip_prefix(s, CreatedBeforePrefix) # <<>>
      THEN Condition_number("CreatedBefore", strip_prefix(s, CreatedBeforePrefix)[1])
    ELSE IF strip_prefix(s, CreatedAfterPrefix) # <<>>
      THEN Condition_number("CreatedAfter", strip_prefix(s, CreatedAfterPrefix)[1])
    ELSE Err(ConditionsParseInvalidCondition)

\* str::split('&'): the pieces between the separators, empty ones kept
RECURSIVE split(_, _)
split(s, sep) ==
    IF \A i \in 1..Len(s) : s[i] # sep THEN <<s>>
    ELSE LET at == CHOOSE i \in 1..Len(s) : s[i] = sep /\ \A j \in 1..(i - 1) : s[j] # sep
         IN  <<SubSeq(s, 1, at - 1)>> \o split(SubSeq(s, at + 1, Len(s)), sep)

\* map(Condition::from_str).collect::<Result<Vec<_>, _>>(): the first error
\* ends the collection
RECURSIVE collect_conditions(_, _)
collect_conditions(pieces, acc) ==
    IF pieces = <<>> THEN OkV(acc)
    ELSE LET c == Condition_from_str(Head(pieces))
         IN  IF c[1] = "Ok" THEN collect_conditions(Tail(pieces), Append(acc, c[2]))
             ELSE c

\* impl FromStr for Conditions
Conditions_from_str(s) ==
    IF s = <<>> THEN OkV(<<>>)
    ELSE collect_conditions(split(s, "&"), <<>>)

\* a Display for Conditions that writes the last condition first
RECURSIVE Conditions_to_string_reversed(_)
Conditions_to_string_reversed(cs) ==
    IF cs = <<>> THEN <<>>
    ELSE IF Len(cs) = 1 THEN Condition_to_string(cs[1])
    ELSE Conditions_to_string_reversed(Tail(cs)) \o <<"&">> \o Condition_to_string(cs[1])

\* Display for Conditions: the parts joined with "&"
RECURSIVE Conditions_to_string(_)
Conditions_to_string(cs) ==
    IF cs = <<>> THEN <<>>
    ELSE IF Len(cs) = 1 THEN Condition_to_string(cs[1])
    ELSE Condition_to_string(cs[1]) \o <<"&">> \o Conditions_to_string(Tail(cs))

DELEGATION_KEYWORD == <<"d", "e", "l", "e", "g", "a", "t", "i", "o", "n">>

\* a token with nothing between the delegatee key and the conditions
DelegationToken_unseparated(delegatee_pk, conditions) ==
    <<"n", "o", "s", "t", "r", ":">> \o DELEGATION_KEYWORD \o <<":">>
        \o XOnlyPublicKey_to_string(delegatee_pk) \o Conditions_to_string(conditions)

\* a token that leaves the delegatee key out
DelegationToken_no_key(delegatee_pk, conditions) ==
    <<"n", "o", "s", "t", "r", ":">> \o DELEGATION_KEYWORD \o <<":">>
        \o <<":">> \o Conditions_to_string(conditions)

\* DelegationToken::new: "nostr:{DELEGATION_KEYWORD}:{delegatee_pk}:{conditions}"
DelegationToken_new(delegatee_pk, conditions) ==
    <<"n", "o", "s", "t", "r", ":">> \o DELEGATION_KEYWORD \o <<":">>
        \o XOnlyPublicKey_to_string(delegatee_pk) \o <<":">>
        \o Conditions_to_string(conditions)

\* the ASCII code of the characters a token is made of
AsciiChars ==
    <<"&", "0", "1", "2", "3", "4", "5", "6", "7", "8", "9", ":", "<", "=", ">", "_",
      "a", "b", "c", "d", "e", "f", "g", "i", "k", "l", "n", "o", "r", "s", "t">>
AsciiCodes ==
    <<38, 48, 49, 50, 51, 52, 53, 54, 55, 56, 57, 58, 60, 61, 62, 95,
      97, 98, 99, 100, 101, 102, 103, 105, 107, 108, 110, 111, 114, 115, 116>>
Ascii ==
    [ch \in {AsciiChars[i] : i \in 1..Len(AsciiChars)} |->
        AsciiCodes[CHOOSE i \in 1..Len(AsciiChars) : AsciiChars[i] = ch]]

\* DelegationToken::as_bytes: the bytes of the string
DelegationToken_as_bytes(token) == [i \in 1..Len(token) |-> Ascii[token[i]]]

\* Sha256Hash::hash of the token's bytes, as the message to sign
Sha256Hash_hash(bytes) == <<"sha256", bytes>>

\* Keys::sign_schnorr
sign_schnorr(sk, message) == [signer |-> public_key(sk), message |-> message]

\* Secp256k1::verify_schnorr
verify_schnorr(signature, message, pk) ==
    IF signature.signer = pk /\ signature.message = message
      THEN Ok ELSE Err("IncorrectSignature")

\* sign_delegation
sign_delegation(delegator_sk, delegatee_pk, conditions) ==
    sign_schnorr(delegator_sk,
                 Sha256Hash_hash(DelegationToken_as_bytes(
                     DelegationToken_new(delegatee_pk, conditions))))

\* verify_delegation_signature: the crypto error is passed on as Secp256k1
verify_delegation_signature(delegator_pk, signature, delegatee_pk, conditions) ==
    LET message == Sha256Hash_hash(DelegationToken_as_bytes(
                       DelegationToken_new(delegatee_pk, conditions)))
        res == verify_schnorr(signature, message, delegator_pk)
    IN  IF res = Ok THEN Ok ELSE Err(Secp256k1(res[2]))

\* DelegationTag::new
DelegationTag_new(delegator_sk, delegatee_pubkey, conditions) ==
    [delegator_pubkey |-> public_key(delegator_sk),
     conditions |-> conditions,
     signature |-> sign_delegation(delegator_sk, delegatee_pubkey, conditions)]

\* a validate that stops after the signature check
validate_signature_only(t, delegatee_pubkey, event_properties) ==
    IF verify_delegation_signature(t.delegator_pubkey, t.signature,
                                   delegatee_pubkey, t.conditions) # Ok
      THEN Err(ConditionsValidation("InvalidSignature"))
      ELSE Ok

\* DelegationTag::validate: the signature first, any error of it mapped to
\* InvalidSignature; then the conditions, their error wrapped by From
validate(t, delegatee_pubkey, event_properties) ==
    IF verify_delegation_signature(t.delegator_pubkey, t.signature,
                                   delegatee_pubkey, t.conditions) # Ok
      THEN Err(ConditionsValidation("InvalidSignature"))
      ELSE LET res == Conditions_evaluate(t.conditions, event_properties)
           IN  IF res = Ok THEN Ok ELSE Err(ConditionsValidation(res[2]))

\* a delegator builds a tag for a delegatee
NewTag(sk, dpk, c) ==
    /\ tag = <<>>
    /\ applied = <<>>
    /\ tag' = <<DelegationTag_new(sk, dpk, c)>>
    /\ delegatee' = <<dpk>>
    /\ UNCHANGED <<validated, applied, relayVars, inboundVars>>

\* the tag is validated for a claimed delegatee and an event, once
ValidateTag(pk, ep) ==
    /\ tag # <<>>
    /\ validated = <<>>
    /\ validated' = <<[delegatee_pubkey |-> pk, event_properties |-> ep,
                       result |-> validate(tag[1], pk, ep)]>>
    /\ UNCHANGED <<tag, delegatee, applied, relayVars, inboundVars>>

\* nothing has been built or applied yet
Fresh == tag = <<>> /\ applied = <<>>

\* the application of a function to an input is recorded
Apply(f, in, out) ==
    /\ applied' = <<[f |-> f, in |-> in, out |-> out]>>
    /\ UNCHANGED <<tag, delegatee, validated, relayVars, inboundVars>>

\* Conditions::evaluate is called
Evaluate ==
    /\ Fresh
    /\ \E cs \in Conditions, ep \in EventProperties :
           Apply("evaluate", [conditions |-> cs, ep |-> ep], Conditions_evaluate(cs, ep))

\* numbers of one and of several digits, up to the largest
WideNums == {0, 7, 10, U64Max}

\* the Conditions over the wide numbers
WideCondition ==
    {Kind(n) : n \in WideNums} \cup {CreatedBefore(n) : n \in WideNums}
        \cup {CreatedAfter(n) : n \in WideNums}
WideConditions == UNION {[1..n -> WideCondition] : n \in 0..MaxCondLen}

\* a Conditions value is formatted and the string is parsed
FormatParse ==
    /\ Fresh
    /\ \E cs \in WideConditions :
           Apply("format_parse", cs,
                 [string |-> Conditions_to_string(cs),
                  parsed |-> Conditions_from_str(Conditions_to_string(cs))])

\* what may stand before the number of a piece: the three prefixes, and
\* texts that are none of them
PiecePrefixes ==
    {KindPrefix, CreatedBeforePrefix, CreatedAfterPrefix,
     <<"k", "i", "n", "d">>, <<>>, <<" ">> \o KindPrefix}

\* what may stand for the number of a piece, with the verdict of the
\* grammar u64 = 1*DIGIT (no sign, no blank, at most the largest u64)
NumberTexts ==
    {[text |-> <<>>, u64 |-> FALSE],
     [text |-> <<"0">>, u64 |-> TRUE],
     [text |-> <<"1", "0">>, u64 |-> TRUE],
     [text |-> <<"+", "1">>, u64 |-> FALSE],
     [text |-> <<"-", "1">>, u64 |-> FALSE],
     [text |-> <<"1", " ">>, u64 |-> FALSE],
     [text |-> <<"1", "x">>, u64 |-> FALSE],
     [text |-> u64_to_string(U64Max + 1), u64 |-> FALSE]}

\* the pieces of an input string
Pieces == [prefix : PiecePrefixes, number : NumberTexts]

\* the input string: the pieces with "&" between them
RECURSIVE JoinPieces(_)
JoinPieces(ps) ==
    IF ps = <<>> THEN <<>>
    ELSE IF Len(ps) = 1 THEN ps[1].prefix \o ps[1].number.text
    ELSE ps[1].prefix \o ps[1].number.text \o <<"&">> \o JoinPieces(Tail(ps))

\* Conditions::from_str is called on a string
ParseConditions ==
    /\ Fresh
    /\ \E n \in 0..MaxCondLen : \E ps \in [1..n -> Pieces] :
           Apply("from_str", [pieces |-> ps, text |-> JoinPieces(ps)],
                 Conditions_from_str(JoinPieces(ps)))

\* Signatures as they are written in a tag: the bytes, one byte wide here
SignatureBytes == {15, 160}

\* the bytes that are the x coordinate of a point of the curve
OnCurve == {public_key(sk) : sk \in SecretKeys} \cup DelegateeKeys

\* Signature as Display: lower-case hex of the bytes
Signature_to_string(sig) ==
    <<HexDigits[(sig \div 16) + 1], HexDigits[(sig % 16) + 1]>>

\* the value of one hex digit of either case, -1 for another character
HexUpper == <<"A", "B", "C", "D", "E", "F">>
hex_value(ch) ==
    IF \E i \in 1..16 : HexDigits[i] = ch
      THEN (CHOOSE i \in 1..16 : HexDigits[i] = ch) - 1
    ELSE IF \E i \in 1..6 : HexUpper[i] = ch
      THEN (CHOOSE i \in 1..6 : HexUpper[i] = ch) + 9
    ELSE -1

\* from_hex: the bytes of an even number of hex digits
from_hex(text) ==
    IF Len(text) % 2 = 1 \/ \E i \in 1..Len(text) : hex_value(text[i]) = -1
      THEN Err("hex")
      ELSE OkV([i \in 1..(Len(text) \div 2) |->
                   hex_value(text[2 * i - 1]) * 16 + hex_value(text[2 * i])])

\* XOnlyPublicKey::from_str: hex of exactly the key's width, on the curve
XOnlyPublicKey_from_str(text) ==
    LET bytes == from_hex(text)
    IN  IF bytes[1] = "Ok" /\ Len(bytes[2]) = 1 /\ bytes[2][1] \in OnCurve
          THEN OkV(bytes[2][1])
          ELSE Err("InvalidPublicKey")

\* Signature::from_str: hex of exactly the signature's width
Signature_from_str(text) ==
    LET bytes == from_hex(text)
    IN  IF bytes[1] = "Ok" /\ Len(bytes[2]) = 1
          THEN OkV(bytes[2][1])
          ELSE Err("InvalidSignature")

\* serde_json writes a string: quoted, with " and \ escaped
RECURSIVE json_escape(_)
json_escape(text) ==
    IF text = <<>> THEN <<>>
    ELSE IF Head(text) \in {"\"", "\\"}
      THEN <<"\\", Head(text)>> \o json_escape(Tail(text))
    ELSE <<Head(text)>> \o json_escape(Tail(text))
json_string(text) == <<"\"">> \o json_escape(text) \o <<"\"">>

\* serde_json writes an array of strings, compact: nothing between the tokens
RECURSIVE json_elements(_)
json_elements(elems) ==
    IF elems = <<>> THEN <<>>
    ELSE IF Len(elems) = 1 THEN json_string(elems[1])
    ELSE json_string(elems[1]) \o <<",">> \o json_elements(Tail(elems))
json_to_string(elems) == <<"[">> \o json_elements(elems) \o <<"]">>

\* an as_json with the signature before the conditions
DelegationTag_as_json_swapped(t) ==
    json_to_string(<<DELEGATION_KEYWORD, XOnlyPublicKey_to_string(t.delegator_pubkey),
                     Signature_to_string(t.signature), Conditions_to_string(t.conditions)>>)

\* DelegationTag::as_json, also Display of DelegationTag
DelegationTag_as_json(t) ==
    json_to_string(<<DELEGATION_KEYWORD, XOnlyPublicKey_to_string(t.delegator_pubkey),
                     Conditions_to_string(t.conditions), Signature_to_string(t.signature)>>)

\* serde_json skips white space between the tokens
RECURSIVE json_skip_ws(_)
json_skip_ws(text) ==
    IF text # <<>> /\ Head(text) \in {" ", "\n", "\t", "\r"}
      THEN json_skip_ws(Tail(text)) ELSE text

\* serde_json reads the characters of a string after its opening quote:
\* <<"Ok", string, rest>>, or an error at an escape it does not know or at
\* the end of the text (of the escapes, \" \\ and \/ occur in the texts here)
RECURSIVE json_read_chars(_, _)
json_read_chars(text, acc) ==
    IF text = <<>> THEN Err("EofWhileParsingString")
    ELSE IF Head(text) = "\"" THEN <<"Ok", acc, Tail(text)>>
    ELSE IF Head(text) = "\\"
      THEN IF Len(text) >= 2 /\ text[2] \in {"\"", "\\", "/"}
             THEN json_read_chars(Tail(Tail(text)), Append(acc, text[2]))
             ELSE Err("InvalidEscape")
    ELSE json_read_chars(Tail(text), Append(acc, Head(text)))

\* serde_json reads the elements of a Vec<String> after "[" or after ",":
\* each one must be a string, followed by "," or "]"
RECURSIVE json_read_elements(_, _)
json_read_elements(text, acc) ==
    LET t == json_skip_ws(text)
    IN  IF t = <<>> \/ Head(t) # "\"" THEN Err("ExpectedString")
        ELSE LET str == json_read_chars(Tail(t), <<>>)
             IN  IF str[1] # "Ok" THEN str
                 ELSE LET after == json_skip_ws(str[3])
                      IN  IF after = <<>> THEN Err("EofWhileParsingList")
                          ELSE IF Head(after) = ","
                            THEN json_read_elements(Tail(after), Append(acc, str[2]))
                          ELSE IF Head(after) = "]"
                            THEN <<"Ok", Append(acc, str[2]), Tail(after)>>
                          ELSE Err("ExpectedListCommaOrEnd")

\* serde_json::from_str::<Vec<String>>: one array of strings and then
\* nothing but white space
serde_json_from_str(text) ==
    LET t == json_skip_ws(text)
    IN  IF t = <<>> THEN Err("EofWhileParsingValue")
        ELSE IF Head(t) # "[" THEN Err("InvalidType")
        ELSE LET inner == json_skip_ws(Tail(t))
                 vec == IF inner # <<>> /\ Head(inner) = "]"
                          THEN <<"Ok", <<>>, Tail(inner)>>
                          ELSE json_read_elements(inner, <<>>)
             IN  IF vec[1] # "Ok" THEN vec
                 ELSE IF json_skip_ws(vec[3]) # <<>> THEN Err("TrailingCharacters")
                 ELSE OkV(vec[2])

\* a try_from that reads the signature before the other two fields
DelegationTag_try_from_signature_first(elems) ==
    IF Len(elems) # 4 THEN Err(DelegationTagParse)
    ELSE IF elems[1] # DELEGATION_KEYWORD THEN Err(DelegationTagParse)
    ELSE LET pk == XOnlyPublicKey_from_str(elems[2])
             cs == Conditions_from_str(elems[3])
             sig == Signature_from_str(elems[4])
         IN  IF sig[1] # "Ok" THEN Err(Secp256k1(sig[2]))
             ELSE IF pk[1] # "Ok" THEN Err(Secp256k1(pk[2]))
             ELSE IF cs[1] # "Ok" THEN cs
             ELSE OkV([delegator_pubkey |-> pk[2], conditions |-> cs[2],
                       signature |-> sig[2]])

\* TryFrom<Vec<String>> for DelegationTag: the length, the keyword, then
\* the three fields in the order of the struct expression, each with "?"
DelegationTag_try_from(elems) ==
    IF Len(elems) # 4 THEN Err(DelegationTagParse)
    ELSE IF elems[1] # DELEGATION_KEYWORD THEN Err(DelegationTagParse)
    ELSE LET pk == XOnlyPublicKey_from_str(elems[2])
             cs == Conditions_from_str(elems[3])
             sig == Signature_from_str(elems[4])
         IN  IF pk[1] # "Ok" THEN Err(Secp256k1(pk[2]))
             ELSE IF cs[1] # "Ok" THEN cs
             ELSE IF sig[1] # "Ok" THEN Err(Secp256k1(sig[2]))
             ELSE OkV([delegator_pubkey |-> pk[2], conditions |-> cs[2],
                       signature |-> sig[2]])

\* DelegationTag::from_json: any error of serde_json is DelegationTagParse
DelegationTag_from_json(text) ==
    LET vec == serde_json_from_str(text)
    IN  IF vec[1] # "Ok" THEN Err(DelegationTagParse)
        ELSE DelegationTag_try_from(vec[2])

\* the tags that are written and read back
JsonTags ==
    [delegator_pubkey : {public_key(sk) : sk \in SecretKeys},
     conditions : WideConditions, signature : SignatureBytes]

\* a tag is written with as_json, read with from_json and written again
TagJson ==
    /\ Fresh
    /\ \E t \in JsonTags :
           LET json == DelegationTag_as_json(t)
               parsed == DelegationTag_from_json(json)
           IN  Apply("tag_json", t,
                     [json |-> json, parsed |-> parsed,
                      again |-> IF parsed[1] = "Ok" THEN DelegationTag_as_json(parsed[2])
                                ELSE <<>>])

\* texts for the first element of a tag
KeywordTexts ==
    {DELEGATION_KEYWORD, <<"D">> \o Tail(DELEGATION_KEYWORD), <<>>,
     DELEGATION_KEYWORD \o <<"\"">>}

\* texts for the delegator field, each with the key it is the hex of, if any
KeyTexts ==
    {[text |-> <<"a", "1">>, key |-> <<161>>], [text |-> <<"A", "1">>, key |-> <<161>>],
     [text |-> <<"a">>, key |-> <<>>], [text |-> <<"a", "1", "a", "1">>, key |-> <<>>],
     [text |-> <<"z", "z">>, key |-> <<>>], [text |-> <<"0", "0">>, key |-> <<>>]}

\* texts for the conditions field
ConditionTexts ==
    {<<>>, KindPrefix \o <<"1">>, KindPrefix \o <<"+", "1">>, <<"k", "i", "n", "d">>,
     KindPrefix \o <<"x">>}

\* texts for the signature field, each with the signature it is the hex of
SignatureTexts ==
    {[text |-> <<"0", "f">>, sig |-> <<15>>], [text |-> <<"0", "F">>, sig |-> <<15>>],
     [text |-> <<"0">>, sig |-> <<>>], [text |-> <<"g", "0">>, sig |-> <<>>]}

\* how the elements are laid out as a text
Layouts ==
    {"compact", "spaced", "three", "five", "none", "unclosed", "trailing", "comma",
     "number", "object", "string", "empty"}
TagInputs ==
    [keyword : KeywordTexts, key : KeyTexts, conditions : ConditionTexts,
     signature : SignatureTexts, layout : Layouts]

\* the elements with blanks around every token
RECURSIVE json_spaced(_)
json_spaced(elems) ==
    IF elems = <<>> THEN <<>>
    ELSE IF Len(elems) = 1 THEN json_string(elems[1]) \o <<" ">>
    ELSE json_string(elems[1]) \o <<" ", ",", " ">> \o json_spaced(Tail(elems))

\* the text of an input
TagText(in) ==
    LET four == <<in.keyword, in.key.text, in.conditions, in.signature.text>>
        compact == json_to_string(four)
    IN  CASE in.layout = "compact" -> compact
          [] in.layout = "spaced" -> <<" ", "[", " ">> \o json_spaced(four) \o <<"]", " ">>
          [] in.layout = "three" -> json_to_string(SubSeq(four, 1, 3))
          [] in.layout = "five" -> json_to_string(Append(four, <<>>))
          [] in.layout = "none" -> json_to_string(<<>>)
          [] in.layout = "unclosed" -> SubSeq(compact, 1, Len(compact) - 1)
          [] in.layout = "trailing" -> compact \o <<"x">>
          [] in.layout = "comma" -> SubSeq(compact, 1, Len(compact) - 1) \o <<",", "]">>
          [] in.layout = "number" ->
                 <<"[">> \o json_elements(SubSeq(four, 1, 3)) \o <<",", "1", "5", "]">>
          [] in.layout = "object" -> <<"{", "}">>
          [] in.layout = "string" -> json_string(in.keyword)
          [] in.layout = "empty" -> <<>>

\* DelegationTag::from_json is called on a text
ParseTag ==
    /\ Fresh
    /\ \E in \in TagInputs :
           Apply("from_json", [parts |-> in, text |-> TagText(in)],
                 DelegationTag_from_json(TagText(in)))

\* DelegationToken::new is called, and as_bytes on the token
MakeToken ==
    /\ Fresh
    /\ \E pk \in DelegateeKeys, cs \in WideConditions :
           Apply("token", [delegatee_pk |-> pk, conditions |-> cs],
                 [string |-> DelegationToken_new(pk, cs),
                  bytes |-> DelegationToken_as_bytes(DelegationToken_new(pk, cs))])

Nip26Next ==
    \/ \E sk \in SecretKeys, dpk \in DelegateeKeys, c \in Conditions : NewTag(sk, dpk, c)
    \/ \E pk \in DelegateeKeys, ep \in EventProperties : ValidateTag(pk, ep)
    \/ Evaluate
    \/ FormatParse
    \/ ParseConditions
    \/ MakeToken
    \/ TagJson
    \/ ParseTag

Nip26Spec == Init /\ [][Nip26Next]_vars

\* ------------------------------------------------------------------- claims
\* a step of connect() that writes the status
ConnectWrites ==
    \E c \in Callers :
        \/ C_TryBegin(c)
        \/ C_SetDisconnected(c)
        \/ \E ok \in BOOLEAN : C_Dial(c, ok)

\* C1: once terminate() has set the termination flag, the next tick of a
\* supervisor (while the status is not yet Terminated) takes the termination
\* branch, which sets the status to Terminated.
C1_NextTickTerminates ==
    [][\A s \in Sups :
          (requested /\ status # "Terminated" /\ sup[s] = "tick" /\ sup'[s] # sup[s])
              => sup'[s] = "set_terminated"]_vars

\* C2: Terminated is absorbing: the status leaves Terminated only in a step
\* of connect().
C2_TerminatedAbsorbing ==
    [][(status = "Terminated" /\ status' # "Terminated") => ConnectWrites]_vars

\* C3: every change of the status is one of the listed transitions
\* (connect(false), which sets Disconnected at once, is granted as the
\* re-entry of connect()).
C3_ListedTransitions ==
    [][status' # status =>
          \/ status \in {"Initialized", "Terminated"} /\ ConnectWrites
          \/ status = "Connecting" /\ status' \in {"Connected", "Disconnected"}
                /\ \/ \E c \in Callers, ok \in BOOLEAN : C_Dial(c, ok)
                   \/ \E s \in Sups, ok \in BOOLEAN : S_Dial(s, ok)
          \/ status = "Disconnected" /\ status' = "Connecting"
                /\ \E s \in Sups : S_TryBegin(s)
          \/ status = "Connected" /\ status' = "Disconnected"
                /\ \E k \in Conns : W_CloseSet(k)
          \/ status' = "Terminated"
                /\ \/ \E k \in Conns : W_TermSet(k)
                   \/ \E s \in Sups : S_SetTerminated(s)]_vars

\* C4: a connect() passes the gate only when it reads Initialized or
\* Terminated; a connect() that reads another status changes nothing but the
\* caller's own position, and a supervisor is spawned only by a connect()
\* that passed the gate.
C4_ConnectGate ==
    [][/\ \A c \in Callers :
             /\ (cpc[c] = "idle" /\ cpc'[c] \in {"c_try", "c_setdisc"})
                    => status \in {"Initialized", "Terminated"}
             /\ (cpc[c] = "idle" /\ cpc'[c] = "c_noop")
                    => /\ status \in {"Connecting", "Connected", "Disconnected"}
                       /\ UNCHANGED <<status, scheduled, chan, rxq, wire, sup, wr,
                                      rd, pg, nsup, nconn, nmsg>>
       /\ nsup' # nsup => \E c \in Callers : cpc[c] \in {"c_dial", "c_setdisc"}
                                              /\ cpc'[c] = "idle"]_vars

C4_Witness ==
    \E c \in Callers : cpc[c] = "c_noop" /\ status = "Connected" /\ nsup = 1

\* the tickets of the texts attempted before position i of the wire
TextsBefore(i) ==
    {wire[j].id : j \in {x \in 1..(i - 1) : wire[x].t = "Text"}}

\* the texts on the wire are in the order of their tickets
TextsInOrder ==
    \A i, j \in 1..Len(wire) :
        (i < j /\ wire[i].t = "Text" /\ wire[j].t = "Text") => wire[i].id < wire[j].id

C6_SendAfterTerminatedFails ==
    [][status = "Terminated" =>
          /\ nmsg' = nmsg
          /\ \A c \in Callers : cpc'[c] = "m_enq" => cpc[c] = "m_enq"]_vars

\* C7: the texts on the wire are in enqueue order: the attempted texts are
\* the first accepted ones, in the order of acceptance, and the ones still
\* queued follow in that order.
C7_WireInEnqueueOrder ==
    LET texts == SelectSeq(wire, LAMBDA f : f.t = "Text")
        queued == SelectSeq(chan, LAMBDA e : e.t = "SendMsg")
    IN  /\ \A i \in 1..Len(texts) : texts[i].id = i
        /\ \A i \in 1..Len(queued) : queued[i].id = Len(texts) + i
        /\ Len(texts) + Len(queued) = nmsg

C7_Witness ==
    Len(SelectSeq(wire, LAMBDA f : f.t = "Text")) >= 2

\* C8: the channel never holds more than its capacity; a send_msg is
\* suspended only on a full channel, and a suspended send_msg ends only by
\* its command being appended to the channel.
C8_BoundedChannel ==
    /\ [](Len(chan) <= ChannelCapacity)
    /\ [][\A c \in Callers :
             /\ (cpc[c] # "m_enq" /\ cpc'[c] = "m_enq")
                    => Len(chan) = ChannelCapacity /\ chan' = chan
             /\ (cpc[c] = "m_enq" /\ cpc'[c] # "m_enq")
                    => /\ Len(chan) < ChannelCapacity
                       /\ chan' = Append(chan, RelayEvent("SendMsg", nmsg'))]_vars

C8_Witness ==
    /\ Len(chan) = ChannelCapacity
    /\ \E c \in Callers : cpc[c] = "m_enq"

\* C9: a tag validated for the delegatee it was built for is Ok exactly when
\* its conditions evaluate to Ok on the event, and otherwise the error is
\* ConditionsValidation wrapping the error of the evaluation.
C9_ValidateIffConditions ==
    \A i \in 1..Len(validated) :
        validated[i].delegatee_pubkey = delegatee[1] =>
            LET res == Conditions_evaluate(tag[1].conditions, validated[i].event_properties)
            IN  IF res = Ok
                  THEN validated[i].result = Ok
                  ELSE validated[i].result = Err(ConditionsValidation(res[2]))

C9_Witness ==
    /\ validated # <<>>
    /\ validated[1].delegatee_pubkey = delegatee[1]
    /\ Len(tag[1].conditions) = 2
    /\ Condition_evaluate(tag[1].conditions[1], validated[1].event_properties) = Ok
    /\ validated[1].result = Err(ConditionsValidation("CreatedTooLate"))

\* C10: a tag validated for another delegatee than the one it was built for
\* is refused with ConditionsValidation(InvalidSignature), whatever the
\* event is and whether or not it satisfies the conditions.
C10_OtherDelegateeInvalidSignature ==
    \A i \in 1..Len(validated) :
        validated[i].delegatee_pubkey # delegatee[1] =>
            validated[i].result = Err(ConditionsValidation("InvalidSignature"))

C10_Witness ==
    /\ validated # <<>>
    /\ validated[1].delegatee_pubkey # delegatee[1]
    /\ tag[1].conditions # <<>>
    /\ Conditions_evaluate(tag[1].conditions, validated[1].event_properties) = Ok
    /\ validated[1].result = Err(ConditionsValidation("InvalidSignature"))

\* the call recorded in applied is a call of f
Applied(f) == applied # <<>> /\ applied[1].f = f

\* C13: the bounds of a condition are strict: Kind(k) holds exactly when the
\* kind is k, CreatedBefore(t) exactly when created_time < t, CreatedAfter(t)
\* exactly when created_time > t; the errors are InvalidKind, CreatedTooLate
\* and CreatedTooEarly, also when created_time is the bound itself.
C13_StrictBounds ==
    (Applied("evaluate") /\ Len(applied[1].in.conditions) = 1) =>
        LET c == applied[1].in.conditions[1]
            ep == applied[1].in.ep
            out == applied[1].out
        IN  /\ c.v = "Kind" =>
                  out = IF ep.kind = c.n THEN Ok ELSE Err("InvalidKind")
            /\ c.v = "CreatedBefore" =>
                  out = IF ep.created_time < c.n THEN Ok ELSE Err("CreatedTooLate")
            /\ c.v = "CreatedAfter" =>
                  out = IF ep.created_time > c.n THEN Ok ELSE Err("CreatedTooEarly")

C13_Witness ==
    /\ Applied("evaluate")
    /\ applied[1].in.conditions = <<CreatedBefore(1)>>
    /\ applied[1].in.ep.created_time = 1
    /\ applied[1].out = Err("CreatedTooLate")

\* an event satisfies a condition
Satisfies(ep, c) ==
    CASE c.v = "Kind" -> ep.kind = c.n
      [] c.v = "CreatedBefore" -> ep.created_time < c.n
      [] c.v = "CreatedAfter" -> ep.created_time > c.n

\* the error that stands for a condition
ViolationOf(c) ==
    CASE c.v = "Kind" -> "InvalidKind"
      [] c.v = "CreatedBefore" -> "CreatedTooLate"
      [] c.v = "CreatedAfter" -> "CreatedTooEarly"

\* C14: Conditions::evaluate is Ok exactly when the event satisfies every
\* condition of the sequence (the empty sequence always); otherwise it
\* returns the error of the first condition in sequence order that is
\* violated, whatever the later conditions are.
C14_FirstViolation ==
    Applied("evaluate") =>
        LET cs == applied[1].in.conditions
            ep == applied[1].in.ep
            violated == {i \in 1..Len(cs) : ~Satisfies(ep, cs[i])}
        IN  IF violated = {}
              THEN applied[1].out = Ok
              ELSE LET first == CHOOSE i \in violated : \A j \in violated : i <= j
                   IN  applied[1].out = Err(ViolationOf(cs[first]))

C14_Witness ==
    /\ Applied("evaluate")
    /\ applied[1].in.conditions = <<CreatedAfter(1), Kind(0)>>
    /\ applied[1].in.ep = [kind |-> 1, created_time |-> 1]
    /\ applied[1].out = Err("CreatedTooEarly")

\* C11: the canonical string of a Conditions value parses back to that
\* value, the order and the duplicates kept; the empty sequence is written
\* as the empty string, which parses to the empty sequence.
C11_ConditionsRoundTrip ==
    Applied("format_parse") =>
        /\ applied[1].out.parsed = OkV(applied[1].in)
        /\ applied[1].in = <<>> <=> applied[1].out.string = <<>>

C11_Witness ==
    /\ Applied("format_parse")
    /\ applied[1].in = <<CreatedAfter(10), Kind(7)>>
    /\ applied[1].out.parsed = OkV(<<CreatedAfter(10), Kind(7)>>)

\* a piece starts with one of the three prefixes
PrefixMatches(p) == p.prefix \in {KindPrefix, CreatedBeforePrefix, CreatedAfterPrefix}

\* a piece is a condition of the grammar
InGrammar(p) == PrefixMatches(p) /\ p.number.u64

\* C15: a non-empty input is split on "&" with nothing trimmed, and the
\* result is the error of the first piece, left to right, that is no
\* condition: ConditionsParseInvalidCondition when the piece starts with
\* none of the prefixes (an empty piece too), ConditionsParseNumeric when a
\* prefix matches and the rest is not a u64; Ok of the empty sequence comes
\* from the empty input only.
C15_FirstBadPiece ==
    Applied("from_str") =>
        LET ps == applied[1].in.pieces
            out == applied[1].out
            bad == {i \in 1..Len(ps) : ~InGrammar(ps[i])}
        IN  /\ out = OkV(<<>>) <=> applied[1].in.text = <<>>
            /\ applied[1].in.text # <<>> =>
                  IF bad = {} THEN out[1] = "Ok" /\ Len(out[2]) = Len(ps)
                  ELSE LET first == CHOOSE i \in bad : \A j \in bad : i <= j
                       IN  /\ out[1] = "Err"
                           /\ IF PrefixMatches(ps[first])
                                 THEN out[2][1] = "ConditionsParseNumeric"
                                 ELSE out[2] = ConditionsParseInvalidCondition

\* C16: the parser accepts exactly the strings of the grammar: conditions
\* joined by "&", each one of the three prefixes followed by a u64 of one or
\* more decimal digits, no sign and no blank; every other string is refused.
C16_AcceptsExactlyGrammar ==
    Applied("from_str") =>
        LET ps == applied[1].in.pieces
        IN  applied[1].out[1] = "Ok"
                <=> (applied[1].in.text = <<>> \/ \A i \in 1..Len(ps) : InGrammar(ps[i]))

\* the characters "nostr:delegation:"
TokenHead ==
    <<"n", "o", "s", "t", "r", ":", "d", "e", "l", "e", "g", "a", "t", "i", "o", "n", ":">>

\* C17: the token is "nostr:delegation:", the hex of the delegatee key, ":"
\* and the canonical conditions string, nothing trimmed or escaped, and its
\* bytes are the bytes of that string; the delegatee key and the conditions
\* can be read back from the string, so two different pairs never give the
\* same preimage.
C17_TokenExact ==
    Applied("token") =>
        LET pk == applied[1].in.delegatee_pk
            cs == applied[1].in.conditions
            str == applied[1].out.string
            bytes == applied[1].out.bytes
            rest == SubSeq(str, Len(TokenHead) + 1, Len(str))
        IN  /\ str = TokenHead \o XOnlyPublicKey_to_string(pk) \o <<":">>
                        \o Conditions_to_string(cs)
            /\ Len(bytes) = Len(str)
            /\ \A i \in 1..Len(str) : AsciiChars[CHOOSE j \in 1..Len(AsciiChars) :
                                                      AsciiCodes[j] = bytes[i]] = str[i]
            /\ SubSeq(str, 1, Len(TokenHead)) = TokenHead
            /\ SubSeq(rest, 1, 2) = XOnlyPublicKey_to_string(pk)
            /\ rest[3] = ":"
            /\ Conditions_from_str(SubSeq(rest, 4, Len(rest))) = OkV(cs)

C17_Witness ==
    /\ Applied("token")
    /\ applied[1].in.conditions = <<Kind(7), CreatedBefore(10)>>
    /\ applied[1].out.string =
           TokenHead \o <<"1", "a", ":", "k", "i", "n", "d", "=", "7", "&">>
               \o <<"c", "r", "e", "a", "t", "e", "d", "_", "a", "t", "<", "1", "0">>

\* C12: a tag written with as_json is the compact array of the keyword, the
\* delegator's hex, the conditions string and the signature's hex; from_json
\* of it is Ok of the same tag, and the tag read from that canonical text is
\* written as the same text again.
C12_TagJsonRoundTrip ==
    Applied("tag_json") =>
        LET t == applied[1].in
            out == applied[1].out
        IN  /\ out.json =
                   <<"[", "\"">> \o DELEGATION_KEYWORD \o <<"\"", ",", "\"">>
                       \o XOnlyPublicKey_to_string(t.delegator_pubkey) \o <<"\"", ",", "\"">>
                       \o Conditions_to_string(t.conditions) \o <<"\"", ",", "\"">>
                       \o Signature_to_string(t.signature) \o <<"\"", "]">>
            /\ out.parsed = OkV(t)
            /\ out.again = out.json

C12_Witness ==
    /\ Applied("tag_json")
    /\ applied[1].in.conditions = <<Kind(7), CreatedAfter(10)>>
    /\ applied[1].in.signature = 160
    /\ applied[1].out.parsed[1] = "Ok"

\* the text is a JSON array of exactly four strings, the first "delegation"
RightShape(parts) ==
    /\ parts.layout \in {"compact", "spaced"}
    /\ parts.keyword =
           <<"d", "e", "l", "e", "g", "a", "t", "i", "o", "n">>

\* C18: from_json gives DelegationTagParse for every text that is not a JSON
\* array of exactly four strings with "delegation" first; for a text of that
\* shape it gives the error of the first of the delegator key, the conditions
\* and the signature that does not decode, with that field's error kind, and
\* Ok of the three decoded fields when they all decode.
C18_TagParseErrors ==
    Applied("from_json") =>
        LET parts == applied[1].in.parts
            out == applied[1].out
            cs == Conditions_from_str(parts.conditions)
        IN  IF ~RightShape(parts) THEN out = Err(DelegationTagParse)
            ELSE IF parts.key.key = <<>> THEN out = Err(Secp256k1("InvalidPublicKey"))
            ELSE IF cs[1] # "Ok"
              THEN /\ out = cs
                   /\ out[2][1] \in {"ConditionsParseInvalidCondition", "ConditionsParseNumeric"}
            ELSE IF parts.signature.sig = <<>>
              THEN out = Err(Secp256k1("InvalidSignature"))
            ELSE out = OkV([delegator_pubkey |-> parts.key.key[1], conditions |-> cs[2],
                            signature |-> parts.signature.sig[1]])

\* a text of the right shape whose three fields are all undecodable
C18_Witness ==
    /\ Applied("from_json")
    /\ RightShape(applied[1].in.parts)
    /\ applied[1].in.parts.layout = "spaced"
    /\ applied[1].in.parts.key.key = <<>>
    /\ applied[1].in.parts.conditions = <<"k", "i", "n", "d">>
    /\ applied[1].in.parts.signature.sig = <<>>
    /\ applied[1].out = Err(Secp256k1("InvalidPublicKey"))

\* the only connect() that passed the gate is the first one, its supervisor
\* has exited (which it does only after the status was Terminated), and no
\* caller is inside a call: connect() has not been invoked with any effect
\* since the status was Terminated
TerminatedOnce ==
    /\ nsup = 1
    /\ sup[1] = "done"
    /\ \A c \in Callers : cpc[c] = "idle"

\* no task is left that writes the status
NoStatusWriter ==
    /\ \A s \in Sups : sup[s] \in {"none", "done"}
    /\ \A k \in Conns : wr[k] \in {"none", "done"}

\* C19: once the status has been Terminated and connect() is not invoked
\* again, every task exits.  Stated on finite runs: when the supervisor and
\* the writers have exited after Terminated, a ping task that is still in
\* its loop finds the status Terminated at its next check, and so exits.
C19_TasksExitAfterTerminated ==
    (TerminatedOnce /\ NoStatusWriter) =>
        \A k \in Conns : pg[k] \in {"sleep", "ping"} => status = "Terminated"

\* C20: when the callers have dropped all their handles, the command
\* channel is closed, so that a writer waiting in recv() on the empty
\* channel is woken with None and its loop ends.
C20_DropClosesChannel ==
    (/\ \A c \in Callers : cpc[c] = "dropped"
     /\ chan = <<>>
     /\ \E k \in Conns : wr[k] = "recv" /\ Head(rxq) = k)
        => ChannelClosed

\* no caller is inside a call
CallersIdle == \A c \in Callers : cpc[c] = "idle"

\* C21: whenever the status is Disconnected and no termination is requested,
\* the supervisor eventually calls try_connect; the relay is never left
\* Disconnected with no supervisor to retry the dial.  Stated on finite
\* runs: when the status is Disconnected, the termination flag is clear, no
\* terminate() is waiting for its Terminated and no connect() is on its way
\* to spawn a supervisor, a supervisor is alive.
C21_DisconnectedHasSupervisor ==
    (status = "Disconnected" /\ ~scheduled /\ ~requested /\ CallersIdle)
        => \E s \in Sups : sup[s] \notin {"none", "done"}

\* a writer is alive: in its loop or in one of the arms
WriterAlive == \E k \in Conns : wr[k] \notin {"none", "done"}

\* nothing is under way that sets the status without a writer: no
\* termination is requested, no caller is inside a call, and every
\* supervisor sleeps or is about to read the flag or the status
NothingUnderWay ==
    /\ ~scheduled /\ ~requested /\ CallersIdle
    /\ \A s \in Sups : sup[s] \in {"none", "done", "tick", "check"}

\* C22: when the stream ends while the status is not Terminated, the reader
\* puts a Close on the channel and the status eventually becomes
\* Disconnected.  Stated on finite runs: while a reader's Close is on the
\* channel, the status is Connected and nothing else is under way, a writer
\* is alive to take the Close and set Disconnected.
C22_CloseIsServed ==
    (/\ \E k \in Conns : rd[k] = "done"
     /\ \E i \in 1..Len(chan) : chan[i].t = "Close"
     /\ status = "Connected"
     /\ NothingUnderWay)
        => WriterAlive

\* the writer of connection k left its loop because sending a Ping failed:
\* it has finished and the last frame it tried was a Ping
PingFailed(k) ==
    /\ wr[k] = "done"
    /\ \E i \in 1..Len(wire) :
           /\ wire[i].conn = k /\ wire[i].t = "Ping"
           /\ \A j \in (i + 1)..Len(wire) : wire[j].conn # k

\* C23: after the writer exits because sending a Ping failed, the status
\* eventually goes from Connected to Disconnected; the relay does not stay
\* Connected with no writer.  Stated on finite runs: when a writer has left
\* on a failed Ping, the status is still Connected and nothing else is
\* under way, a task is left that sets the status: a writer.
C23_PingFailureDisconnects ==
    ((\E k \in Conns : PingFailed(k)) /\ status = "Connected" /\ NothingUnderWay)
        => WriterAlive

\* C24: when sending the text of a SendMsg fails, the writer stays in its
\* loop, waiting for the receiver's lock or holding it, the status and the
\* termination flag are left alone, and no caller is touched: send_msg has
\* returned when the command was accepted and learns nothing of the error.
C24_SendMsgErrorIgnored ==
    [][\A k \in Conns :
          (/\ Receiving(k) /\ Head(chan).t = "SendMsg"
           /\ wire' = Append(wire, Frame(k, "Text", Head(chan), FALSE)))
             => /\ wr'[k] = "recv"
                /\ \E i \in 1..Len(rxq') : rxq'[i] = k
                /\ chan' = Tail(chan)
                /\ status' = status /\ scheduled' = scheduled
                /\ cpc' = cpc]_vars

\* a text could not be sent, and the same writer took the next command
C24_Witness ==
    \E i \in 1..Len(wire) :
        /\ wire[i].t = "Text" /\ ~wire[i].ok
        /\ i < Len(wire) /\ wire[i + 1].conn = wire[i].conn
        /\ wire[i + 1].t = "Text" /\ wire[i + 1].id = wire[i].id + 1

\* C25: the command channel has a single consumer: every writer task that
\* is alive is the writer of the current connection, the last one made.
C25_SingleConsumer ==
    \A k \in Conns : wr[k] \notin {"none", "done"} => k = nconn

\* C29: at most one supervisor task is alive at any time.
C29_SingleSupervisor ==
    Cardinality({s \in Sups : sup[s] \notin {"none", "done"}}) <= 1

\* C30: at most one ping task and at most one reader task are alive at any
\* time: those of an earlier connection have exited when a later
\* try_connect spawns new ones.  Stated for the runs with one supervisor,
\* in which every connection but the first is a reconnect.
C30_TasksDoNotAccumulate ==
    nsup <= 1 =>
    /\ Cardinality({k \in Conns : pg[k] \notin {"none", "done"}}) <= 1
    /\ Cardinality({k \in Conns : rd[k] \notin {"none", "done"}}) <= 1

\* C28: a connect(true) that passed the gate returns only from its dial, in
\* the step in which the dial attempt completes, and the status is then
\* Connected (a connection was made) or Disconnected (none was made); a
\* connect(false) that passed the gate returns with the status Disconnected
\* and without a dial, and it leaves a new supervisor at the start of its
\* first tick; a supervisor that reads Disconnected in a tick begins
\* try_connect.
C28_ConnectReturns ==
    [][/\ \A c \in Callers :
            /\ (cpc[c] = "c_try" /\ cpc'[c] # "c_try") => cpc'[c] = "c_dial"
            /\ (cpc[c] = "c_dial" /\ cpc'[c] # "c_dial") =>
                   /\ cpc'[c] = "idle"
                   /\ \/ status' = "Connected" /\ nconn' = nconn + 1
                      \/ status' = "Disconnected" /\ nconn' = nconn
                   /\ nsup' = nsup + 1 /\ sup'[nsup'] = "tick"
            /\ (cpc[c] = "c_setdisc" /\ cpc'[c] # "c_setdisc") =>
                   /\ cpc'[c] = "idle"
                   /\ status' = "Disconnected" /\ nconn' = nconn
                   /\ nsup' = nsup + 1 /\ sup'[nsup'] = "tick"
       /\ \A s \in Sups :
            /\ (sup[s] = "check" /\ sup'[s] # "check" /\ status = "Disconnected")
                   => sup'[s] = "try"
            /\ (sup[s] = "try" /\ sup'[s] # "try")
                   => sup'[s] = "dial" /\ status' = "Connecting"]_vars

\* connect() has returned with the status Disconnected, no connection made,
\* and its supervisor is at the start of its first tick
C28_Witness ==
    /\ CallersIdle /\ ops = 1 /\ nsup = 1 /\ sup[1] = "tick"
    /\ nconn = 0 /\ status = "Disconnected"

\* C26: the reader is never held up by the pool's channel: when the channel
\* is full the message is logged and dropped, and the reader is back at
\* ws_rx.next(); no reader is suspended in pool_sender.send().
C26_ReaderNeverWaitsOnPool ==
    \A k \in Conns : fwd[k] = <<>>

\* the places in inbound of the frames that are relay messages
MsgFrames == {i \in 1..Len(inbound) : inbound[i].kind = "msg"}

\* C27: the events that the pool's channel accepted are ReceivedMsg with
\* this relay's URL, each for a frame that decodes as a relay message, each
\* frame once and in the order of arrival; nothing is forwarded for a frame
\* that is an error or does not decode; and while the pool's receiver is
\* there, every message frame read so far has been accepted or is the one
\* that a reader is handing over, so no frame stops the frames after it.
C27_ForwardedInOrder ==
    /\ \A j \in 1..Len(accepted) :
          /\ accepted[j].relay_url = Url
          /\ accepted[j].msg \in MsgFrames
          /\ \A i \in 1..(j - 1) : accepted[i].msg < accepted[j].msg
    /\ poolOpen =>
          /\ MsgFrames = {accepted[j].msg : j \in 1..Len(accepted)}
                             \cup {fwd[k][1].msg : k \in {c \in Conns : fwd[c] # <<>>}}
          /\ Len(pool) <= Len(accepted)
          /\ pool = SubSeq(accepted, Len(accepted) - Len(pool) + 1, Len(accepted))

\* an undecodable frame and then two messages were read; both messages
\* were accepted by the pool's channel, in that order
C27_Witness ==
    /\ Len(inbound) = 3
    /\ inbound[1].kind = "bad_json" /\ inbound[2].kind = "msg" /\ inbound[3].kind = "msg"
    /\ accepted = <<ReceivedMsg(Url, 2), ReceivedMsg(Url, 3)>>

\* C31: a connection is not torn down by what an earlier session left
\* behind: a Terminate or a Close that was put on the channel before the
\* connection was made has no effect on it.  Stated for the commands: the
\* writer of connection k closes its sink and goes on to set the status
\* only for a Terminate or a Close that was queued when connection k
\* existed.
C31_LeftoversHaveNoEffect ==
    [][\A k \in Conns :
          (/\ Receiving(k) /\ Head(chan).t \in {"Terminate", "Close"}
           /\ wr'[k] \in {"term_set", "close_set"})
             => Head(chan).at >= k]_vars

\* terminate() was called while no connection existed, the supervisor set
\* Terminated and left, a new connect() made the first connection, and its
\* writer has served the Terminate that was still on the channel
C31_Scenario ==
    /\ ops = 4 /\ nconn = 1 /\ nsup = 2 /\ sup[1] = "done"
    /\ wire = <<Frame(1, "Close", [t |-> "Terminate", id |-> 0], TRUE)>>
    /\ status = "Terminated" /\ wr[1] = "done"

\* how often the SendMsg with ticket m is on the channel
TimesQueued(m) ==
    Cardinality({i \in 1..Len(chan) : chan[i].t = "SendMsg" /\ chan[i].id = m})

\* how often the SendMsg with ticket m has been attempted on a sink
TimesAttempted(m) ==
    Cardinality({j \in 1..Len(wire) : wire[j].t = "Text" /\ wire[j].id = m})

\* C32: no accepted command is discarded by a disconnect or a reconnect:
\* every accepted SendMsg is either still on the channel or has been
\* attempted on a sink, and exactly once in all; while no writer task is
\* running nothing leaves the channel, and a SendMsg accepted then is put
\* behind what is queued.
C32_NoCommandDiscarded ==
    /\ [](\A m \in 1..nmsg : TimesQueued(m) + TimesAttempted(m) = 1)
    /\ [][~WriterAlive =>
             /\ Len(chan') >= Len(chan)
             /\ SubSeq(chan', 1, Len(chan)) = chan
             /\ nmsg' # nmsg =>
                    chan' = Append(chan, [t |-> "SendMsg", id |-> nmsg', at |-> 0])]_vars

\* the first connection was closed by a Close that was issued before any
\* SendMsg was accepted, and the text was attempted on the sink of the
\* second connection
C32_Witness ==
    \E i, j \in 1..Len(wire) :
        /\ i < j
        /\ wire[i].conn = 1 /\ wire[i].ev = "Close" /\ wire[i].id = 0
        /\ wire[j].conn = 2 /\ wire[j].t = "Text" /\ wire[j].id = 1

====
